---- MODULE Spec2Model ----
(***************************************************************************)
(* The query tree (src/query-tree/objects.ts) and the resolution pipeline  *)
(* of OperationResolver.resolveOperation: guard, tree build, collection    *)
(* of the flex search tokenizations, the tokenizeExpressions round trip,   *)
(* expansion, authorization, static evaluation, backend execution and the  *)
(* assembly of the result envelope.                                        *)
(***************************************************************************)
EXTENDS Integers, Sequences, FiniteSets, TLC

\* ------------------------------------------------------------------ bounds
\* A built query tree is a root ObjectQueryNode with at most MaxNodes nodes
\* below it.
MaxNodes == 2

Expressions == {"e1", "e2"}
Languages == {"en"}

\* The in-flight calls of resolveOperation; every resolver has its own context.
Requests == {"r1"}
NoRequest == "none"
NoContext == "none"

\* ------------------------------------------------------- query tree nodes
LiteralQueryNode ==
    [kind |-> "LiteralQueryNode"]

VariableQueryNode ==
    [kind |-> "VariableQueryNode"]

\* The list a list field is read from (the listNode of buildFilteredListNode).
EntitiesQueryNode ==
    [kind |-> "EntitiesQueryNode"]

FlexSearchComplexOperatorQueryNode(expression, language) ==
    [kind |-> "FlexSearchComplexOperatorQueryNode",
     expression |-> expression, flexSearchLanguage |-> language]

PropertySpecification(propertyName, valueNode) ==
    [kind |-> "PropertySpecification",
     propertyName |-> propertyName, valueNode |-> valueNode]

ObjectQueryNode(properties) ==
    [kind |-> "ObjectQueryNode", properties |-> properties]

\* ObjectQueryNode.EMPTY
EMPTY == ObjectQueryNode(<<>>)

MergeObjectsQueryNode(objectNodes) ==
    [kind |-> "MergeObjectsQueryNode", objectNodes |-> objectNodes]

\* new TransformListQueryNode({ listNode, itemVariable, filterNode })
TransformListQueryNode(listNode, itemVariable, filterNode) ==
    [kind |-> "TransformListQueryNode", listNode |-> listNode,
     itemVariable |-> itemVariable, filterNode |-> filterNode]

\* The node a FlexSearchComplexOperatorQueryNode expands to; it keeps the
\* token list that expand() was given.
ExpandedOperatorQueryNode(expression, tokenizations) ==
    [kind |-> "ExpandedOperatorQueryNode",
     expression |-> expression, tokenizations |-> tokenizations]

\* The restriction wrapper the authorization rewrite puts around a tree.
RuntimeCheckQueryNode(node) ==
    [kind |-> "RuntimeCheckQueryNode", node |-> node]

NoQueryNode == [kind |-> "undefined"]

\* The property name the builder gives the i-th selected field.
PropertyName(i) == <<"f", i>>

\* buildFilteredListNode(listNode, args, filterType, itemType), with the filter
\* node that filterType.getFilterNode returns.
buildFilteredListNode(listNode, filterNode) ==
    TransformListQueryNode(listNode, VariableQueryNode, filterNode)

Leaves ==
    {LiteralQueryNode}
    \cup {FlexSearchComplexOperatorQueryNode(e, l) : e \in Expressions, l \in Languages}

\* The trees with exactly k nodes and the node lists with m nodes in total
\* (the list source and the item variable of a list transform not counted).
RECURSIVE TreesOfSize(_)
RECURSIVE ForestsOfSize(_)
ForestsOfSize(m) ==
    IF m = 0 THEN {<<>>}
    ELSE UNION {{<<t>> \o f : t \in TreesOfSize(j), f \in ForestsOfSize(m - j)} : j \in 1..m}

Properties(forest) ==
    [i \in 1..Len(forest) |-> PropertySpecification(PropertyName(i), forest[i])]

TreesOfSize(k) ==
    IF k = 1 THEN Leaves \cup {EMPTY, MergeObjectsQueryNode(<<>>)}
    ELSE {ObjectQueryNode(Properties(f)) : f \in ForestsOfSize(k - 1)}
         \cup {MergeObjectsQueryNode(f) : f \in ForestsOfSize(k - 1)}
         \cup {buildFilteredListNode(EntitiesQueryNode, filterNode) :
                  filterNode \in TreesOfSize(k - 1)}

\* What buildConditionalObjectQueryNode can return: an ObjectQueryNode over
\* the selected fields.
BuilderTrees ==
    {ObjectQueryNode(Properties(f)) : f \in UNION {ForestsOfSize(m) : m \in 0..MaxNodes}}

\* ------------------------------------------------ generic node traversal
\* Object.keys(queryNode) restricted to the fields whose value is itself a
\* QueryNode (instanceof QueryNode); an array of nodes is not one.
QueryNodeFields(queryNode) ==
    CASE queryNode.kind = "TransformListQueryNode" -> <<"listNode", "itemVariable", "filterNode">>
      [] queryNode.kind = "PropertySpecification" -> <<"valueNode">>
      [] queryNode.kind = "RuntimeCheckQueryNode" -> <<"node">>
      [] OTHER -> <<>>

\* ----------------------------------------------- queryFlexSearchTokens
RECURSIVE collectTokenizations(_)
RECURSIVE collectTokenizationsOfProperties(_)
RECURSIVE collectTokenizationsOfFields(_, _)
collectTokenizationsOfProperties(properties) ==
    IF properties = <<>> THEN <<>>
    ELSE collectTokenizations(Head(properties).valueNode)
         \o collectTokenizationsOfProperties(Tail(properties))

collectTokenizationsOfFields(queryNode, fields) ==
    IF fields = <<>> THEN <<>>
    ELSE collectTokenizations(queryNode[Head(fields)])
         \o collectTokenizationsOfFields(queryNode, Tail(fields))

collectTokenizations(queryNode) ==
    (IF queryNode.kind = "FlexSearchComplexOperatorQueryNode"
        THEN <<[expression |-> queryNode.expression, language |-> queryNode.flexSearchLanguage]>>
        ELSE <<>>)
    \o (IF queryNode.kind = "ObjectQueryNode"
           THEN collectTokenizationsOfProperties(queryNode.properties)
           ELSE <<>>)
    \o collectTokenizationsOfFields(queryNode, QueryNodeFields(queryNode))

\* DatabaseAdapter.tokenizeExpressions: one result per request, in request order.
tokenizeExpressions(tokenizations) ==
    [i \in 1..Len(tokenizations) |->
        [expression |-> tokenizations[i].expression,
         language |-> tokenizations[i].language,
         tokens |-> <<"tokens", tokenizations[i].expression>>]]

\* ------------------------------------------------------- expandQueryNode
\* FlexSearchComplexOperatorQueryNode.expand(tokenizations)
expand(queryNode, tokenizations) ==
    ExpandedOperatorQueryNode(queryNode.expression, tokenizations)

\* expandQueryNode returns the node and whether it is the reference it was
\* given (same) or a newly allocated node.
RECURSIVE expandQueryNode(_, _)
RECURSIVE expandProperties(_, _)
RECURSIVE expandFields(_, _, _)
expandProperties(properties, tokenizations) ==
    IF properties = <<>> THEN <<>>
    ELSE <<PropertySpecification(Head(properties).propertyName,
                expandQueryNode(Head(properties).valueNode, tokenizations).node)>>
         \o expandProperties(Tail(properties), tokenizations)

\* The loop over Object.keys: newFieldValues assigned over the node, and hasChanged.
expandFields(queryNode, fields, tokenizations) ==
    IF fields = <<>> THEN [node |-> queryNode, hasChanged |-> FALSE]
    ELSE LET newValue == expandQueryNode(queryNode[Head(fields)], tokenizations)
             rest == expandFields(queryNode, Tail(fields), tokenizations)
         IN  IF newValue.same THEN rest
             ELSE [node |-> [rest.node EXCEPT ![Head(fields)] = newValue.node],
                   hasChanged |-> TRUE]

\* expandQueryNode handing every search operator the entries of its own
\* expression only.
expandQueryNodeSlicing(queryNode, tokenizations) ==
    IF queryNode.kind = "FlexSearchComplexOperatorQueryNode"
    THEN [node |-> expand(queryNode,
                          SelectSeq(tokenizations,
                                    LAMBDA t : t.expression = queryNode.expression)),
          same |-> FALSE]
    ELSE IF queryNode.kind = "ObjectQueryNode"
    THEN [node |-> ObjectQueryNode(expandProperties(queryNode.properties, tokenizations)),
          same |-> FALSE]
    ELSE LET r == expandFields(queryNode, QueryNodeFields(queryNode), tokenizations)
         IN  IF ~r.hasChanged THEN [node |-> queryNode, same |-> TRUE]
             ELSE [node |-> r.node, same |-> FALSE]

expandQueryNode(queryNode, tokenizations) ==
    IF queryNode.kind = "FlexSearchComplexOperatorQueryNode"
    THEN [node |-> expand(queryNode, tokenizations), same |-> FALSE]
    ELSE IF queryNode.kind = "ObjectQueryNode"
    THEN [node |-> ObjectQueryNode(expandProperties(queryNode.properties, tokenizations)),
          same |-> FALSE]
    ELSE LET r == expandFields(queryNode, QueryNodeFields(queryNode), tokenizations)
         IN  IF ~r.hasChanged THEN [node |-> queryNode, same |-> TRUE]
             ELSE [node |-> r.node, same |-> FALSE]

\* ------------------------------------------- authorization, evaluation
\* applyAuthorizationToQueryTree: the tree itself when nothing it accesses is
\* protected for the roles, else the tree under a runtime check.
applyAuthorizationToQueryTree(queryTree, restricted) ==
    IF restricted THEN RuntimeCheckQueryNode(queryTree) ELSE queryTree

\* A tree of literals, objects and merges is reducible without the backend.
RECURSIVE isLiteralOnly(_)
isLiteralOnly(queryNode) ==
    CASE queryNode.kind = "LiteralQueryNode" -> TRUE
      [] queryNode.kind = "ObjectQueryNode" ->
            \A i \in 1..Len(queryNode.properties) : isLiteralOnly(queryNode.properties[i].valueNode)
      [] queryNode.kind = "MergeObjectsQueryNode" ->
            \A i \in 1..Len(queryNode.objectNodes) : isLiteralOnly(queryNode.objectNodes[i])
      [] OTHER -> FALSE

UndefinedValue == [kind |-> "undefined"]
StaticValue(queryTree) == [kind |-> "value", by |-> "staticEvaluation", of |-> queryTree]
BackendValue(queryTree) == [kind |-> "value", by |-> "backend", of |-> queryTree]

evaluateQueryStatically(queryTree) ==
    IF isLiteralOnly(queryTree)
    THEN [canEvaluateStatically |-> TRUE, result |-> StaticValue(queryTree)]
    ELSE [canEvaluateStatically |-> FALSE, result |-> UndefinedValue]

\* ------------------------------------------------------- values and objects
\* The values of the program: undefined, null, a scalar, an object (its keys
\* and their values) or an array.
UndefinedJS == [kind |-> "undefined"]
NullJS == [kind |-> "null"]
Scalar(s) == [kind |-> "scalar", scalar |-> s]
Object(o) == [kind |-> "object", object |-> o]
Array(items) == [kind |-> "array", items |-> items]

\* {}
EmptyObject == [name \in {} |-> NullJS]

\* The objects with keys among `names`, every value out of `values`.
ObjectsOver(names, values) ==
    UNION {[keys -> values] : keys \in SUBSET names}

\* The sequences of at most n elements of S.
SeqsUpTo(S, n) == UNION {[1..m -> S] : m \in 0..n}

\* ----------------------------------------------- MergeObjectsQueryNode
MaxMergeInputs == 2
MergeNames == {"a", "x"}

\* What a property of a merged object can hold: a scalar, the null that
\* removes the property, or an object.
MergeValues ==
    {Scalar("1"), Scalar("2"), NullJS,
     Object([name \in {"p"} |-> Scalar("1")]), Object([name \in {"q"} |-> Scalar("2")])}

MergeInputs == SeqsUpTo(ObjectsOver(MergeNames, MergeValues), MaxMergeInputs)

\* One step of a merge that keeps what the target has: the first object to
\* define a property wins.
mergeIntoKeepingTarget(target, source) ==
    LET removed == {name \in DOMAIN target : target[name] = NullJS}
        kept == (DOMAIN target \cup DOMAIN source) \ removed
    IN  [name \in {n \in kept : n \in DOMAIN target \/ source[n] # NullJS} |->
            IF name \in DOMAIN target THEN target[name] ELSE source[name]]

\* One step of a recursive merge: two objects merged property by property,
\* the objects inside them too.
RECURSIVE mergeIntoRecursively(_, _)
mergeIntoRecursively(target, source) ==
    LET removed == {name \in DOMAIN source : source[name] = NullJS}
        kept == (DOMAIN target \cup DOMAIN source) \ removed
    IN  [name \in kept |->
            IF name \notin DOMAIN source THEN target[name]
            ELSE IF /\ name \in DOMAIN target
                    /\ target[name].kind = "object"
                    /\ source[name].kind = "object"
                 THEN Object(mergeIntoRecursively(target[name].object, source[name].object))
                 ELSE source[name]]

\* One step of the merge: the properties of `source` are put over those of
\* `target`; a property that `source` sets to null is removed.
mergeInto(target, source) ==
    LET removed == {name \in DOMAIN source : source[name] = NullJS}
        kept == (DOMAIN target \cup DOMAIN source) \ removed
    IN  [name \in kept |-> IF name \in DOMAIN source THEN source[name] ELSE target[name]]

\* The value of a MergeObjectsQueryNode over objectNodes that evaluate to
\* `objects`: merged from the first to the last, not recursively.
RECURSIVE mergeObjects(_)
mergeObjects(objects) ==
    IF objects = <<>> THEN EmptyObject
    ELSE mergeInto(mergeObjects(SubSeq(objects, 1, Len(objects) - 1)), objects[Len(objects)])

\* ------------------------------------------------------ the model's types
\* The types of spec/dev/model/simple.graphqls that take part in a create
\* input: Hero (a root entity), Suit (an entity extension) and Mission (a child
\* entity). Default values are added on Mission.title and on two lists, and a
\* list of scalars on Suit, so that every path of getProperties is taken.
\* Delivery (a root entity) and Parcel (a child entity) each declare a field
\* of their own with the name of a property the generator sets.
ModelTypes == {"Hero", "Suit", "Mission", "Delivery", "Parcel"}

TypeKind(type) ==
    CASE type \in {"Hero", "Movie", "Delivery"} -> "rootEntity"
      [] type \in {"Mission", "Parcel"} -> "childEntity"
      [] type = "Suit" -> "entityExtension"
      [] type = "Skill" -> "valueObject"
      [] OTHER -> "scalar"

\* A field of the model without default value.
Field(declaringType, name, type, isList) ==
    [declaringType |-> declaringType, name |-> name, type |-> type, isList |-> isList,
     hasDefaultValue |-> FALSE, defaultValue |-> UndefinedJS,
     isSystemField |-> FALSE, isRelation |-> FALSE]

WithDefault(field, defaultValue) ==
    [field EXCEPT !.hasDefaultValue = TRUE, !.defaultValue = defaultValue]

ModelFields(type) ==
    CASE type = "Hero" ->
            <<[Field("Hero", "createdAt", "DateTime", FALSE) EXCEPT !.isSystemField = TRUE],
              Field("Hero", "name", "String", FALSE),
              WithDefault(Field("Hero", "age", "Int", FALSE), Scalar("42")),
              Field("Hero", "nickNames", "String", TRUE),
              [Field("Hero", "movies", "Movie", TRUE) EXCEPT !.isRelation = TRUE],
              Field("Hero", "suit", "Suit", FALSE),
              WithDefault(Field("Hero", "missions", "Mission", TRUE), NullJS)>>
      [] type = "Suit" ->
            <<Field("Suit", "color", "String", FALSE),
              WithDefault(Field("Suit", "patches", "String", TRUE), NullJS)>>
      [] type = "Mission" ->
            <<WithDefault(Field("Mission", "title", "String", FALSE), Scalar("untitled"))>>
      [] type = "Delivery" -> <<Field("Delivery", "updatedAt", "String", FALSE)>>
      [] type = "Parcel" -> <<Field("Parcel", "id", "String", FALSE)>>
      [] type = "Skill" ->
            <<Field("Skill", "description", "String", FALSE),
              Field("Skill", "strength", "Float", FALSE),
              Field("Skill", "skills", "Skill", TRUE)>>
      [] OTHER -> <<>>

\* The object types generate() is called for: those above and the value
\* object Skill, whose field skills is a list of Skill.
GeneratedTypes == ModelTypes \cup {"Skill"}

\* ENTITY_CREATED_AT, ENTITY_UPDATED_AT, ID_FIELD
ENTITY_CREATED_AT == "createdAt"
ENTITY_UPDATED_AT == "updatedAt"
ID_FIELD == "id"

\* ------------------------------------------------------ create input types
\* flatMap over a sequence of sequences
RECURSIVE Flatten(_)
Flatten(seqs) == IF seqs = <<>> THEN <<>> ELSE Head(seqs) \o Flatten(Tail(seqs))

\* CreateInputTypeGenerator.generateFields: the input fields of a model field.
\* objectInputType is the name of the type whose input type generate() gives.
generateFields(field) ==
    LET basic == [class |-> IF field.isList /\ TypeKind(field.type) = "scalar"
                            THEN "BasicListCreateInputField"
                            ELSE "BasicCreateInputField",
                  field |-> field, objectInputType |-> "none"]
    IN  IF field.isSystemField THEN <<>>
        ELSE IF TypeKind(field.type) = "scalar" THEN <<basic>>
        ELSE IF TypeKind(field.type) = "rootEntity"
             THEN IF field.isRelation THEN <<>> ELSE <<basic>>
        ELSE <<[class |-> IF field.isList THEN "ObjectListCreateInputField"
                          ELSE "ObjectCreateInputField",
                field |-> field, objectInputType |-> field.type]>>

\* CreateInputTypeGenerator.generate: the create input type of an object type.
generate(type) ==
    [class |-> CASE TypeKind(type) = "rootEntity" -> "CreateRootEntityInputType"
                 [] TypeKind(type) = "childEntity" -> "CreateChildEntityInputType"
                 [] OTHER -> "CreateObjectInputType",
     name |-> type,
     fields |-> Flatten([i \in DOMAIN ModelFields(type) |-> generateFields(ModelFields(type)[i])])]

\* value[name], undefined for a key the object does not have
Get(value, name) == IF name \in DOMAIN value THEN value[name] ELSE UndefinedJS

\* A pair of toPairs.
Pair(name, value) == [name |-> name, value |-> value]

\* fromPairs: the last pair of a name gives its value.
fromPairs(pairs) ==
    [name \in {pairs[i].name : i \in DOMAIN pairs} |->
        pairs[CHOOSE i \in DOMAIN pairs :
                 /\ pairs[i].name = name
                 /\ \A j \in DOMAIN pairs : pairs[j].name = name => j <= i].value]

\* throw new Error(`Expected value for "${this.name}" to be an array, ...`)
ExpectedArray(name) == [kind |-> "error", error |-> "Expected value to be an array", name |-> name]

IsError(value) == value.kind = "error"

\* The first error among the values of a sequence of pairs.
FirstError(pairs) ==
    pairs[CHOOSE i \in DOMAIN pairs :
             /\ IsError(pairs[i].value)
             /\ \A j \in DOMAIN pairs : IsError(pairs[j].value) => i <= j].value

\* An appliesToMissingFields that is never true.
appliesToMissingFieldsNever(inputField) == FALSE

\* BasicCreateInputField.appliesToMissingFields
appliesToMissingFields(inputField) == inputField.field.hasDefaultValue

\* CreateObjectInputType.getApplicableInputFields
getApplicableInputFields(inputType, value) ==
    SelectSeq(inputType.fields,
              LAMBDA inputField : \/ inputField.field.name \in DOMAIN value
                                  \/ appliesToMissingFields(inputField))

\* getAdditionalProperties of the three input type classes, as pairs; `now` is
\* what getCurrentISODate() returns and uuid() is a generated id.
getAdditionalProperties(inputType, now) ==
    CASE inputType.class = "CreateRootEntityInputType" ->
            <<Pair(ENTITY_CREATED_AT, Scalar(now)), Pair(ENTITY_UPDATED_AT, Scalar(now))>>
      [] inputType.class = "CreateChildEntityInputType" ->
            <<Pair(ID_FIELD, Scalar("uuid")), Pair(ENTITY_CREATED_AT, Scalar(now)),
              Pair(ENTITY_UPDATED_AT, Scalar(now))>>
      [] OTHER -> <<>>

\* A coerceValue of the list of scalars that lets null through.
basicListCoerceValueKeepingNull(value) == value

\* BasicListCreateInputField.coerceValue
basicListCoerceValue(value) == IF value = NullJS THEN Array(<<>>) ELSE value

RECURSIVE prepareValue(_, _, _)
RECURSIVE coerceValue(_, _, _)

\* ObjectListCreateInputField.coerceValue, the array case: every item prepared.
prepareItems(inputField, items, now) ==
    LET prepared == [i \in DOMAIN items |->
                        Pair(inputField.field.name,
                             prepareValue(inputField.objectInputType, items[i].object, now))]
    IN  IF \E i \in DOMAIN prepared : IsError(prepared[i].value)
        THEN FirstError(prepared)
        ELSE Array([i \in DOMAIN items |-> prepared[i].value])

\* coerceValue of the four input field classes.
coerceValue(inputField, value, now) ==
    CASE inputField.class = "BasicCreateInputField" -> value
      [] inputField.class = "BasicListCreateInputField" -> basicListCoerceValue(value)
      [] inputField.class = "ObjectCreateInputField" ->
            IF value \in {NullJS, UndefinedJS} THEN value
            ELSE prepareValue(inputField.objectInputType, value.object, now)
      [] inputField.class = "ObjectListCreateInputField" ->
            IF value = NullJS THEN Array(<<>>)
            ELSE IF value = UndefinedJS THEN UndefinedJS
            ELSE IF value.kind # "array" THEN ExpectedArray(inputField.field.name)
            ELSE prepareItems(inputField, value.items, now)

\* A getProperties that takes the default for null as well as for undefined.
getPropertiesDefaultingNull(inputField, value, now) ==
    LET given == IF value \in {UndefinedJS, NullJS} /\ inputField.field.hasDefaultValue
                 THEN inputField.field.defaultValue ELSE value
    IN  Pair(inputField.field.name, coerceValue(inputField, given, now))

\* BasicCreateInputField.getProperties: the one pair { [field.name]: value }
getProperties(inputField, value, now) ==
    LET given == IF value = UndefinedJS /\ inputField.field.hasDefaultValue
                 THEN inputField.field.defaultValue ELSE value
    IN  Pair(inputField.field.name, coerceValue(inputField, given, now))

\* A prepareValue that puts the additional properties first, so that those of
\* the fields are the last of their name.
prepareValueAdditionalFirst(type, value, now) ==
    LET inputType == generate(type)
        applicableFields == getApplicableInputFields(inputType, value)
        properties ==
            getAdditionalProperties(inputType, now) \o
            [i \in DOMAIN applicableFields |->
                getProperties(applicableFields[i], Get(value, applicableFields[i].field.name), now)]
    IN  IF \E i \in DOMAIN properties : IsError(properties[i].value)
        THEN FirstError(properties)
        ELSE Object(fromPairs(properties))

\* CreateObjectInputType.prepareValue of the input type of `type`: an object,
\* or the error thrown on the way.
prepareValue(type, value, now) ==
    LET inputType == generate(type)
        applicableFields == getApplicableInputFields(inputType, value)
        properties ==
            [i \in DOMAIN applicableFields |->
                getProperties(applicableFields[i], Get(value, applicableFields[i].field.name), now)]
            \o getAdditionalProperties(inputType, now)
    IN  IF \E i \in DOMAIN properties : IsError(properties[i].value)
        THEN FirstError(properties)
        ELSE Object(fromPairs(properties))

\* fields.add(field) on a Set that keeps the order of insertion
SetAdd(fields, field) ==
    IF \E i \in DOMAIN fields : fields[i] = field THEN fields ELSE Append(fields, field)

\* No error is thrown.
NoError == [kind |-> "none"]

\* new Set<Field>(), and no error thrown so far
NoFields == [fields |-> <<>>, thrown |-> FALSE, error |-> NoError]

\* A collectAffectedFields that reports the field whatever the value.
basicCollectAffectedFieldsAlways(inputField, value, affected) ==
    [affected EXCEPT !.fields = SetAdd(@, inputField.field)]

\* BasicCreateInputField.collectAffectedFields
basicCollectAffectedFields(inputField, value, affected) ==
    IF value = UndefinedJS THEN affected
    ELSE [affected EXCEPT !.fields = SetAdd(@, inputField.field)]

RECURSIVE collectAffectedFields(_, _, _)
RECURSIVE collectAffectedFieldsOfFields(_, _, _)
RECURSIVE collectAffectedFieldsOfItems(_, _, _)

\* collectAffectedFields of the four input field classes; nothing more is
\* collected once an error is thrown.
collectAffectedFieldsOfField(inputField, value, affected) ==
    LET basic == basicCollectAffectedFields(inputField, value, affected)
    IN  CASE inputField.class \in {"BasicCreateInputField", "BasicListCreateInputField"} -> basic
          [] inputField.class = "ObjectCreateInputField" ->
                IF value \in {NullJS, UndefinedJS} THEN basic
                ELSE collectAffectedFields(inputField.objectInputType, value.object, basic)
          [] inputField.class = "ObjectListCreateInputField" ->
                IF value \in {NullJS, UndefinedJS} THEN basic
                ELSE IF value.kind # "array"
                     THEN [basic EXCEPT !.thrown = TRUE,
                                        !.error = ExpectedArray(inputField.field.name)]
                ELSE collectAffectedFieldsOfItems(inputField, value.items, basic)

\* value.forEach(value => this.objectInputType.collectAffectedFields(value, fields))
collectAffectedFieldsOfItems(inputField, items, affected) ==
    IF items = <<>> \/ affected.thrown THEN affected
    ELSE collectAffectedFieldsOfItems(inputField, Tail(items),
            collectAffectedFields(inputField.objectInputType, Head(items).object, affected))

\* this.getApplicableInputFields(value).forEach(field => field.collectAffectedFields(...))
collectAffectedFieldsOfFields(inputFields, value, affected) ==
    IF inputFields = <<>> \/ affected.thrown THEN affected
    ELSE collectAffectedFieldsOfFields(Tail(inputFields), value,
            collectAffectedFieldsOfField(Head(inputFields),
                                         Get(value, Head(inputFields).field.name), affected))

\* CreateObjectInputType.collectAffectedFields of the input type of `type`
collectAffectedFields(type, value, affected) ==
    collectAffectedFieldsOfFields(getApplicableInputFields(generate(type), value), value, affected)

\* CreateObjectInputType.getAffectedFields: Array.from(fields), or the error
getAffectedFields(type, value) == collectAffectedFields(type, value, NoFields)

\* ------------------------------------------- the values given to a create
MaxListLength == 2
Times == {"t1"}

\* The objects of `objects`, and each of them with `key` set to one of `values`.
Extend(objects, key, values) ==
    objects \cup {o @@ (key :> v) : o \in objects, v \in values}

MissionObjects == Extend({EmptyObject}, "title", {NullJS, Scalar("x")})

SuitObjects ==
    Extend(Extend({EmptyObject}, "color", {UndefinedJS, Scalar("x")}), "patches", {NullJS})

MissionLists ==
    {Array(items) : items \in SeqsUpTo({Object(o) : o \in MissionObjects}, MaxListLength)}

HeroObjects ==
    LET withName == Extend({EmptyObject}, "name", {UndefinedJS, NullJS, Scalar("x")})
        withAge == Extend(withName, "age", {UndefinedJS, NullJS, Scalar("7")})
        withNickNames == Extend(withAge, "nickNames", {NullJS, Array(<<Scalar("x")>>)})
        withSuit == Extend(withNickNames, "suit",
                           {UndefinedJS, NullJS} \cup {Object(o) : o \in SuitObjects})
    IN  Extend(withSuit, "missions", {UndefinedJS, NullJS, Scalar("x")} \cup MissionLists)

\* The values a create of `type` is called with; "extra" is a key that no
\* field of the type has.
CreateValues(type) ==
    Extend(CASE type = "Hero" -> HeroObjects
             [] type = "Suit" -> SuitObjects
             [] type = "Mission" -> MissionObjects
             [] type = "Delivery" -> Extend({EmptyObject}, "updatedAt", {NullJS, Scalar("x")})
             [] type = "Parcel" -> Extend({EmptyObject}, "id", {NullJS, Scalar("x")}),
           "extra", {Scalar("x")})

\* ------------------------------------------------------------------ state
VARIABLES
    globalContext,   \* the context registered with globalContext, or NoContext
    running,         \* the call that occupies the event loop, or NoRequest
    pc,              \* per call: its position in resolveOperation
    request,         \* per call: operation kind, options, profileConsumer, adapter
    queryTree,       \* per call: the local queryTree
    tokenizations,   \* per call: the list collected for tokenizeExpressions
    tokens,          \* per call: the list tokenizeExpressions returned
    watch,           \* per call: watch (created, names stopped in order)
    topLevelWatch,   \* per call: topLevelWatch
    res,             \* per call: what the execution call returned
    locals,          \* per call: data, error, dbAdapterTimings, plan, stats
    trace,           \* per call: the steps taken and calls made, in order
    outcome,         \* per call: pending, returned (the envelope) or thrown
    merging,         \* the evaluation of one MergeObjectsQueryNode: inputs, result
    creating,        \* one create input: the type, the value, what was computed
    generation       \* the CreateInputTypeGenerator: call stack and memorized types

resolverVars == <<globalContext, running, pc, request, queryTree, tokenizations, tokens,
                  watch, topLevelWatch, res, locals, trace, outcome>>
pureVars == <<merging, creating, generation>>
vars == <<resolverVars, pureVars>>

\* Nothing is merged and no create input is prepared.
NoMerging == [kind |-> "idle"]
NoCreating == [kind |-> "idle"]

\* new CreateInputTypeGenerator(enumTypeGenerator): nothing is called and
\* nothing memorized.
NoGeneration == [kind |-> "idle", type |-> "none", stack |-> <<>>, cache |-> {}]

\* The depth of the call stack at which the engine throws a RangeError.
MaxStackDepth == 4

Operations == {"query", "mutation"}
MutationModes == {"unset", "allowed", "disallowed"}
AllOptions == [mutationMode : MutationModes, recordPlan : BOOLEAN, recordTimings : BOOLEAN]
\* options = {}
EmptyOptions == [mutationMode |-> "unset", recordPlan |-> FALSE, recordTimings |-> FALSE]

NoRequestInfo == [operation |-> "query", options |-> EmptyOptions, profileConsumer |-> FALSE,
                  hasExecuteExt |-> FALSE]
NoResult == [kind |-> "undefined"]
NoWatch == [created |-> FALSE, timings |-> <<>>]
NoLocals == [data |-> UndefinedValue, error |-> "undefined", dbAdapterTimings |-> FALSE,
             plan |-> "undefined", stats |-> "empty"]
Pending == [kind |-> "pending"]
Thrown(error) == [kind |-> "thrown", error |-> error]
Returned(envelope) == [kind |-> "returned", envelope |-> envelope]

Event(step, tree, list) == [step |-> step, tree |-> tree, list |-> list]
Step(step) == Event(step, NoQueryNode, <<>>)

\* new Watch() ... watch.stop(name), only if the watch was created
stop(w, name) == IF w.created THEN [w EXCEPT !.timings = Append(@, name)] ELSE w

\* needsTimings without the test of options.recordPlan.
needsTimingsWithoutPlan(info) ==
    info.profileConsumer \/ info.options.recordTimings

\* const needsTimings = profileConsumer || options.recordPlan || options.recordTimings
needsTimings(info) ==
    info.profileConsumer \/ info.options.recordPlan \/ info.options.recordTimings

\* The guard without the test for a mutation.
guardRejectsAnyOperation(info) ==
    info.options.mutationMode = "disallowed"

\* if (operation === 'mutation' && options.mutationMode === 'disallowed')
guardRejects(info) ==
    info.operation = "mutation" /\ info.options.mutationMode = "disallowed"

Init ==
    /\ globalContext = NoContext
    /\ running = NoRequest
    /\ pc = [r \in Requests |-> "idle"]
    /\ request = [r \in Requests |-> NoRequestInfo]
    /\ queryTree = [r \in Requests |-> NoQueryNode]
    /\ tokenizations = [r \in Requests |-> <<>>]
    /\ tokens = [r \in Requests |-> <<>>]
    /\ watch = [r \in Requests |-> NoWatch]
    /\ topLevelWatch = [r \in Requests |-> NoWatch]
    /\ res = [r \in Requests |-> NoResult]
    /\ locals = [r \in Requests |-> NoLocals]
    /\ trace = [r \in Requests |-> <<>>]
    /\ outcome = [r \in Requests |-> Pending]
    /\ merging = NoMerging
    /\ creating = NoCreating
    /\ generation = NoGeneration

\* The exception leaves resolveOperation: the call is over.
Fails(r, error) ==
    /\ pc' = [pc EXCEPT ![r] = "done"]
    /\ outcome' = [outcome EXCEPT ![r] = Thrown(error)]
    /\ running' = NoRequest

\* resolveOperation is called: registerContext, options, watches (lines 84-98).
Start(r) ==
    /\ pc[r] = "idle"
    /\ running = NoRequest
    /\ globalContext' = r
    /\ queryTree' = [queryTree EXCEPT ![r] = NoQueryNode]
    /\ tokenizations' = [tokenizations EXCEPT ![r] = <<>>]
    /\ tokens' = [tokens EXCEPT ![r] = <<>>]
    /\ res' = [res EXCEPT ![r] = NoResult]
    /\ locals' = [locals EXCEPT ![r] = NoLocals]
    /\ trace' = [trace EXCEPT ![r] = <<Step("registerContext")>>]
    /\ \E operation \in Operations, profileConsumer \in BOOLEAN, hasExecuteExt \in BOOLEAN :
          \/ \E options \in AllOptions :
                LET info == [operation |-> operation, options |-> options,
                             profileConsumer |-> profileConsumer,
                             hasExecuteExt |-> hasExecuteExt]
                IN  /\ request' = [request EXCEPT ![r] = info]
                    /\ watch' = [watch EXCEPT ![r] =
                                    [created |-> needsTimings(info), timings |-> <<>>]]
                    /\ topLevelWatch' = [topLevelWatch EXCEPT ![r] =
                                    [created |-> needsTimings(info), timings |-> <<>>]]
                    /\ pc' = [pc EXCEPT ![r] = "guard"]
                    /\ outcome' = [outcome EXCEPT ![r] = Pending]
                    /\ running' = r
          \/ \* this.context.getExecutionOptions(...) throws
             /\ request' = [request EXCEPT ![r] =
                               [operation |-> operation, options |-> EmptyOptions,
                                profileConsumer |-> profileConsumer,
                                hasExecuteExt |-> hasExecuteExt]]
             /\ watch' = [watch EXCEPT ![r] = NoWatch]
             /\ topLevelWatch' = [topLevelWatch EXCEPT ![r] = NoWatch]
             /\ Fails(r, "getExecutionOptions")
    /\ UNCHANGED pureVars

\* The mutation guard (lines 99-101).
Guard(r) ==
    /\ pc[r] = "guard"
    /\ running = r
    /\ IF guardRejects(request[r])
       THEN Fails(r, "Mutations are not allowed")
       ELSE /\ pc' = [pc EXCEPT ![r] = "build"]
            /\ UNCHANGED <<outcome, running>>
    /\ UNCHANGED <<globalContext, request, queryTree, tokenizations, tokens, watch,
                   topLevelWatch, res, locals, trace>>
    /\ UNCHANGED pureVars

\* finally { globalContext.unregisterContext(); } (lines 143-145), after `steps`
Finally(r, steps) ==
    /\ globalContext' = NoContext
    /\ trace' = [trace EXCEPT ![r] = @ \o steps \o <<Step("unregisterContext")>>]

\* Build with a failure branch that leaves the try block without its finally.
BuildWithoutFinally(r) ==
    /\ pc[r] = "build"
    /\ running = r
    /\ \/ \E tree \in BuilderTrees :
             /\ queryTree' = [queryTree EXCEPT ![r] = tree]
             /\ watch' = [watch EXCEPT ![r] = stop(@, "distillation")]
             /\ trace' = [trace EXCEPT ![r] = Append(@, Event("build", tree, <<>>))]
             /\ pc' = [pc EXCEPT ![r] = "collect"]
             /\ UNCHANGED <<globalContext, outcome, running>>
       \/ \E thrower \in {"distillOperation", "buildConditionalObjectQueryNode"} :
             /\ watch' = [watch EXCEPT ![r] =
                   IF thrower = "distillOperation" THEN @ ELSE stop(@, "distillation")]
             /\ trace' = [trace EXCEPT ![r] = Append(@, Step(
                   IF thrower = "distillOperation" THEN "distillOperation failed"
                   ELSE "buildConditionalObjectQueryNode failed"))]
             /\ Fails(r, thrower)
             /\ UNCHANGED <<globalContext, queryTree>>
    /\ UNCHANGED <<request, tokenizations, tokens, topLevelWatch, res, locals>>
    /\ UNCHANGED pureVars

\* distillOperation and buildConditionalObjectQueryNode (lines 104-127); either
\* may throw, and the finally block of line 143 runs on the way out.
Build(r) ==
    /\ pc[r] = "build"
    /\ running = r
    /\ \/ \E tree \in BuilderTrees :
             /\ queryTree' = [queryTree EXCEPT ![r] = tree]
             /\ watch' = [watch EXCEPT ![r] = stop(@, "distillation")]
             /\ trace' = [trace EXCEPT ![r] = Append(@, Event("build", tree, <<>>))]
             /\ pc' = [pc EXCEPT ![r] = "collect"]
             /\ UNCHANGED <<globalContext, outcome, running>>
       \/ \E thrower \in {"distillOperation", "buildConditionalObjectQueryNode"} :
             /\ watch' = [watch EXCEPT ![r] =
                   IF thrower = "distillOperation" THEN @ ELSE stop(@, "distillation")]
             /\ Finally(r, <<Step(
                   IF thrower = "distillOperation" THEN "distillOperation failed"
                   ELSE "buildConditionalObjectQueryNode failed")>>)
             /\ Fails(r, thrower)
             /\ UNCHANGED queryTree
    /\ UNCHANGED <<request, tokenizations, tokens, topLevelWatch, res, locals>>
    /\ UNCHANGED pureVars

\* queryFlexSearchTokens up to `await collectTokenizations(queryTree)` (lines 214-237).
CollectTokenizations(r) ==
    /\ pc[r] = "collect"
    /\ running = r
    /\ tokenizations' = [tokenizations EXCEPT ![r] = collectTokenizations(queryTree[r])]
    /\ pc' = [pc EXCEPT ![r] = "tokenize"]
    /\ running' = NoRequest
    /\ UNCHANGED <<globalContext, request, queryTree, tokens, watch, topLevelWatch,
                   res, locals, trace, outcome>>
    /\ UNCHANGED pureVars

\* The call left out when nothing was collected.
TokenizeExpressionsSkipEmpty(r) ==
    /\ pc[r] = "tokenize"
    /\ running = NoRequest
    /\ trace' = [trace EXCEPT ![r] =
                    IF tokenizations[r] = <<>> THEN @
                    ELSE Append(@, Event("tokenizeExpressions", NoQueryNode, tokenizations[r]))]
    /\ pc' = [pc EXCEPT ![r] = "awaitTokens"]
    /\ UNCHANGED <<globalContext, running, request, queryTree, tokenizations, tokens,
                   watch, topLevelWatch, res, locals, outcome>>
    /\ UNCHANGED pureVars

\* return databaseAdapter.tokenizeExpressions(tokenizations) (line 238).
TokenizeExpressions(r) ==
    /\ pc[r] = "tokenize"
    /\ running = NoRequest
    /\ trace' = [trace EXCEPT ![r] =
                    Append(@, Event("tokenizeExpressions", NoQueryNode, tokenizations[r]))]
    /\ pc' = [pc EXCEPT ![r] = "awaitTokens"]
    /\ UNCHANGED <<globalContext, running, request, queryTree, tokenizations, tokens,
                   watch, topLevelWatch, res, locals, outcome>>
    /\ UNCHANGED pureVars

\* The backend answers the tokenization call, or the call fails (line 128).
TokensReturned(r) ==
    /\ pc[r] = "awaitTokens"
    /\ running = NoRequest
    /\ \/ /\ tokens' = [tokens EXCEPT ![r] = tokenizeExpressions(tokenizations[r])]
          /\ pc' = [pc EXCEPT ![r] = "expand"]
          /\ running' = r
          /\ UNCHANGED <<globalContext, trace, outcome>>
       \/ \* the tokenizeExpressions promise is rejected
          /\ Finally(r, <<Step("tokenizeExpressions failed")>>)
          /\ Fails(r, "tokenizeExpressions")
          /\ UNCHANGED tokens
    /\ UNCHANGED <<request, queryTree, tokenizations, watch, topLevelWatch, res, locals>>
    /\ UNCHANGED pureVars

\* queryTree = await this.expandQueryNode(queryTree, tokens) (line 129).
Expand(r) ==
    /\ pc[r] = "expand"
    /\ running = r
    /\ LET expanded == expandQueryNode(queryTree[r], tokens[r]).node
       IN  \/ /\ queryTree' = [queryTree EXCEPT ![r] = expanded]
              /\ trace' = [trace EXCEPT ![r] = Append(@, Event("expand", expanded, tokens[r]))]
              /\ pc' = [pc EXCEPT ![r] = "authorize"]
              /\ running' = NoRequest
              /\ UNCHANGED <<globalContext, outcome>>
           \/ \* queryNode.expand(tokenizations) throws
              /\ expanded # queryTree[r]
              /\ Finally(r, <<>>)
              /\ Fails(r, "expand")
              /\ UNCHANGED queryTree
    /\ UNCHANGED <<request, tokenizations, tokens, watch, topLevelWatch, res, locals>>
    /\ UNCHANGED pureVars

\* The result of applyAuthorizationToQueryTree not assigned to queryTree.
AuthorizeResultDropped(r) ==
    /\ pc[r] = "authorize"
    /\ running = NoRequest
    /\ \/ \E restricted \in BOOLEAN :
             LET authorized == applyAuthorizationToQueryTree(queryTree[r], restricted)
             IN  /\ watch' = [watch EXCEPT ![r] = stop(stop(@, "queryTree"), "authorization")]
                 /\ Finally(r, <<Event("authorization", queryTree[r], <<>>),
                                 Event("authorized", authorized, <<>>)>>)
                 /\ pc' = [pc EXCEPT ![r] = "staticEvaluation"]
                 /\ running' = r
                 /\ UNCHANGED outcome
       \/ /\ watch' = [watch EXCEPT ![r] = stop(@, "queryTree")]
          /\ Finally(r, <<Event("authorization", queryTree[r], <<>>)>>)
          /\ Fails(r, "applyAuthorizationToQueryTree")
    /\ UNCHANGED <<request, queryTree, tokenizations, tokens, topLevelWatch, res, locals>>
    /\ UNCHANGED pureVars

\* An authorization pass that is awaited: the call is suspended once more
\* before the static evaluation.
AuthorizeSuspending(r) ==
    /\ pc[r] = "authorize"
    /\ running = NoRequest
    /\ \E restricted \in BOOLEAN :
          LET authorized == applyAuthorizationToQueryTree(queryTree[r], restricted)
          IN  /\ queryTree' = [queryTree EXCEPT ![r] = authorized]
              /\ watch' = [watch EXCEPT ![r] = stop(stop(@, "queryTree"), "authorization")]
              /\ Finally(r, <<Event("authorization", queryTree[r], <<>>),
                              Event("authorized", authorized, <<>>)>>)
              /\ pc' = [pc EXCEPT ![r] = "staticEvaluation"]
    /\ UNCHANGED <<running, outcome, request, tokenizations, tokens, topLevelWatch, res,
                   locals>>
    /\ UNCHANGED pureVars

\* applyAuthorizationToQueryTree and the finally block (lines 130-145).
Authorize(r) ==
    /\ pc[r] = "authorize"
    /\ running = NoRequest
    /\ \/ \E restricted \in BOOLEAN :
             LET authorized == applyAuthorizationToQueryTree(queryTree[r], restricted)
             IN  /\ queryTree' = [queryTree EXCEPT ![r] = authorized]
                 /\ watch' = [watch EXCEPT ![r] = stop(stop(@, "queryTree"), "authorization")]
                 /\ Finally(r, <<Event("authorization", queryTree[r], <<>>),
                                 Event("authorized", authorized, <<>>)>>)
                 /\ pc' = [pc EXCEPT ![r] = "staticEvaluation"]
                 /\ running' = r
                 /\ UNCHANGED outcome
       \/ \* a misconfigured authorization rule
          /\ watch' = [watch EXCEPT ![r] = stop(@, "queryTree")]
          /\ Finally(r, <<Event("authorization", queryTree[r], <<>>)>>)
          /\ Fails(r, "applyAuthorizationToQueryTree")
          /\ UNCHANGED queryTree
    /\ UNCHANGED <<request, tokenizations, tokens, topLevelWatch, res, locals>>
    /\ UNCHANGED pureVars

\* The backend used whatever the static evaluator reports.
StaticEvaluationAlwaysExecutes(r) ==
    /\ pc[r] = "staticEvaluation"
    /\ running = r
    /\ locals' = [locals EXCEPT ![r].data = evaluateQueryStatically(queryTree[r]).result]
    /\ pc' = [pc EXCEPT ![r] = "execute"]
    /\ watch' = [watch EXCEPT ![r] = stop(@, "staticEvaluation")]
    /\ topLevelWatch' = [topLevelWatch EXCEPT ![r] = stop(@, "preparation")]
    /\ trace' = [trace EXCEPT ![r] = Append(@, Event("staticEvaluation", queryTree[r], <<>>))]
    /\ UNCHANGED <<globalContext, running, request, queryTree, tokenizations, tokens, res,
                   outcome>>
    /\ UNCHANGED pureVars

\* evaluateQueryStatically(queryTree) (lines 146-154).
StaticEvaluation(r) ==
    /\ pc[r] = "staticEvaluation"
    /\ running = r
    /\ LET evaluated == evaluateQueryStatically(queryTree[r])
       IN  /\ locals' = [locals EXCEPT ![r].data = evaluated.result]
           /\ pc' = [pc EXCEPT ![r] =
                        IF evaluated.canEvaluateStatically THEN "assemble" ELSE "execute"]
    /\ watch' = [watch EXCEPT ![r] = stop(@, "staticEvaluation")]
    /\ topLevelWatch' = [topLevelWatch EXCEPT ![r] = stop(@, "preparation")]
    /\ trace' = [trace EXCEPT ![r] = Append(@, Event("staticEvaluation", queryTree[r], <<>>))]
    /\ UNCHANGED <<globalContext, running, request, queryTree, tokenizations, tokens, res,
                   outcome>>
    /\ UNCHANGED pureVars

\* The data of a result that carries an error not kept.
recordResultDroppingData(l, result) ==
    [data |-> IF result.error # "undefined" THEN UndefinedValue ELSE result.data,
     error |-> result.error, dbAdapterTimings |-> result.timings,
     plan |-> result.plan, stats |-> IF result.stats THEN "backend" ELSE l.stats]

\* Lines 162-171: what resolveOperation keeps of the backend's result.
recordResult(l, result) ==
    [data |-> result.data, error |-> result.error, dbAdapterTimings |-> result.timings,
     plan |-> result.plan, stats |-> IF result.stats THEN "backend" ELSE l.stats]

\* { data: this.context.databaseAdapter.execute(queryTree) }
executeResult(tree) ==
    [data |-> BackendValue(tree), error |-> "undefined", timings |-> FALSE,
     plan |-> "undefined", stats |-> FALSE]

\* What executeExt({ queryTree, ...options }) can resolve to.
executeExtResults(tree, options) ==
    {[data |-> data, error |-> error, timings |-> timings,
      plan |-> IF options.recordPlan THEN "plan" ELSE "undefined", stats |-> TRUE] :
        data \in {BackendValue(tree), UndefinedValue},
        error \in {"undefined", "backend error"},
        timings \in BOOLEAN}
    \ {[data |-> UndefinedValue, error |-> "undefined", timings |-> timings,
        plan |-> IF options.recordPlan THEN "plan" ELSE "undefined", stats |-> TRUE] :
        timings \in BOOLEAN}

\* execute used even when the adapter has executeExt.
ExecuteIgnoringExecuteExt(r) ==
    /\ pc[r] = "execute"
    /\ running = r
    /\ \/ /\ trace' = [trace EXCEPT ![r] = Append(@, Event("execute", queryTree[r], <<>>))]
          /\ res' = [res EXCEPT ![r] = executeResult(queryTree[r])]
          /\ locals' = [locals EXCEPT ![r] = recordResult(@, executeResult(queryTree[r]))]
          /\ topLevelWatch' = [topLevelWatch EXCEPT ![r] = stop(@, "database")]
          /\ pc' = [pc EXCEPT ![r] = "assemble"]
          /\ UNCHANGED <<outcome, running>>
       \/ /\ trace' = [trace EXCEPT ![r] = @ \o <<Event("execute", queryTree[r], <<>>),
                                                  Step("execute failed")>>]
          /\ Fails(r, "execute")
          /\ UNCHANGED <<res, locals, topLevelWatch>>
    /\ UNCHANGED <<globalContext, request, queryTree, tokenizations, tokens, watch>>
    /\ UNCHANGED pureVars

\* if (!canEvaluateStatically): executeExt is called, or execute runs (lines 155-179).
Execute(r) ==
    /\ pc[r] = "execute"
    /\ running = r
    /\ IF request[r].hasExecuteExt
       THEN /\ trace' = [trace EXCEPT ![r] = Append(@, Event("executeExt", queryTree[r], <<>>))]
            /\ pc' = [pc EXCEPT ![r] = "awaitExecute"]
            /\ running' = NoRequest
            /\ UNCHANGED <<res, locals, topLevelWatch, outcome>>
       ELSE \/ /\ trace' = [trace EXCEPT ![r] = Append(@, Event("execute", queryTree[r], <<>>))]
               /\ res' = [res EXCEPT ![r] = executeResult(queryTree[r])]
               /\ locals' = [locals EXCEPT ![r] = recordResult(@, executeResult(queryTree[r]))]
               /\ topLevelWatch' = [topLevelWatch EXCEPT ![r] = stop(@, "database")]
               /\ pc' = [pc EXCEPT ![r] = "assemble"]
               /\ UNCHANGED <<outcome, running>>
            \/ \* execute throws
               /\ trace' = [trace EXCEPT ![r] = @ \o <<Event("execute", queryTree[r], <<>>),
                                                       Step("execute failed")>>]
               /\ Fails(r, "execute")
               /\ UNCHANGED <<res, locals, topLevelWatch>>
    /\ UNCHANGED <<globalContext, request, queryTree, tokenizations, tokens, watch>>
    /\ UNCHANGED pureVars

\* A rejection of executeExt caught and put into the envelope.
ExecuteExtReturnedCatching(r) ==
    /\ pc[r] = "awaitExecute"
    /\ running = NoRequest
    /\ \/ \E result \in executeExtResults(queryTree[r], request[r].options) :
             /\ res' = [res EXCEPT ![r] = result]
             /\ locals' = [locals EXCEPT ![r] = recordResult(@, result)]
             /\ UNCHANGED trace
       \/ /\ trace' = [trace EXCEPT ![r] = Append(@, Step("executeExt failed"))]
          /\ locals' = [locals EXCEPT ![r].error = "executeExt"]
          /\ UNCHANGED res
    /\ topLevelWatch' = [topLevelWatch EXCEPT ![r] = stop(@, "database")]
    /\ pc' = [pc EXCEPT ![r] = "assemble"]
    /\ running' = r
    /\ UNCHANGED <<globalContext, request, queryTree, tokenizations, tokens, watch, outcome>>
    /\ UNCHANGED pureVars

\* The executeExt promise settles (lines 156-179).
ExecuteExtReturned(r) ==
    /\ pc[r] = "awaitExecute"
    /\ running = NoRequest
    /\ \/ \E result \in executeExtResults(queryTree[r], request[r].options) :
             /\ res' = [res EXCEPT ![r] = result]
             /\ locals' = [locals EXCEPT ![r] = recordResult(@, result)]
             /\ topLevelWatch' = [topLevelWatch EXCEPT ![r] = stop(@, "database")]
             /\ pc' = [pc EXCEPT ![r] = "assemble"]
             /\ running' = r
             /\ UNCHANGED <<trace, outcome>>
       \/ \* the executeExt promise is rejected
          /\ trace' = [trace EXCEPT ![r] = Append(@, Step("executeExt failed"))]
          /\ Fails(r, "executeExt")
          /\ UNCHANGED <<res, locals, topLevelWatch>>
    /\ UNCHANGED <<globalContext, request, queryTree, tokenizations, tokens, watch>>
    /\ UNCHANGED pureVars

Names(timings) == {timings[i] : i \in 1..Len(timings)}

\* The profile of lines 183-206.
makeProfile(w, top, l) ==
    IF w.created /\ top.created
    THEN [defined |-> TRUE,
          timings |->
             [database |-> IF l.dbAdapterTimings THEN "adapter"
                           ELSE IF "database" \in Names(w.timings) THEN "sampled"
                           ELSE "undefined",
              dbConnection |-> IF l.dbAdapterTimings THEN "adapter" ELSE "zero",
              preparation |->
                 [adapter |-> l.dbAdapterTimings,
                  samples |-> w.timings,
                  total |-> IF "preparation" \in Names(top.timings) THEN "sampled"
                            ELSE "undefined"],
              total |-> "sampled"],
          plan |-> l.plan,
          stats |-> l.stats]
    ELSE [defined |-> FALSE]

\* return { data, error, profile } (lines 183-211).
Assemble(r) ==
    /\ pc[r] = "assemble"
    /\ running = r
    /\ outcome' = [outcome EXCEPT ![r] =
          Returned([data |-> locals[r].data, error |-> locals[r].error,
                    profile |-> makeProfile(watch[r], topLevelWatch[r], locals[r])])]
    /\ pc' = [pc EXCEPT ![r] = "done"]
    /\ running' = NoRequest
    /\ UNCHANGED <<globalContext, request, queryTree, tokenizations, tokens, watch,
                   topLevelWatch, res, locals, trace>>
    /\ UNCHANGED pureVars

\* The caller has the outcome; the frame of the call is gone.
Complete(r) ==
    /\ pc[r] = "done"
    /\ pc' = [pc EXCEPT ![r] = "idle"]
    /\ request' = [request EXCEPT ![r] = NoRequestInfo]
    /\ queryTree' = [queryTree EXCEPT ![r] = NoQueryNode]
    /\ tokenizations' = [tokenizations EXCEPT ![r] = <<>>]
    /\ tokens' = [tokens EXCEPT ![r] = <<>>]
    /\ watch' = [watch EXCEPT ![r] = NoWatch]
    /\ topLevelWatch' = [topLevelWatch EXCEPT ![r] = NoWatch]
    /\ res' = [res EXCEPT ![r] = NoResult]
    /\ locals' = [locals EXCEPT ![r] = NoLocals]
    /\ trace' = [trace EXCEPT ![r] = <<>>]
    /\ outcome' = [outcome EXCEPT ![r] = Pending]
    /\ UNCHANGED <<globalContext, running>>
    /\ UNCHANGED pureVars

Next ==
    \E r \in Requests :
        \/ Start(r)
        \/ Guard(r)
        \/ Build(r)
        \/ CollectTokenizations(r)
        \/ TokenizeExpressions(r)
        \/ TokensReturned(r)
        \/ Expand(r)
        \/ Authorize(r)
        \/ StaticEvaluation(r)
        \/ Execute(r)
        \/ ExecuteExtReturned(r)
        \/ Assemble(r)
        \/ Complete(r)

Spec == Init /\ [][Next]_vars

\* ------------------------------------------------ two calls at the same time
\* Two resolveOperation calls of two OperationResolvers, each with a context of
\* its own, on the one event loop; the inputs are a query without options and
\* two trees, one of them with a search operator.
ConcurrentRequests == {"r1", "r2"}

ConcurrentTrees ==
    {EMPTY, ObjectQueryNode(Properties(<<FlexSearchComplexOperatorQueryNode("e1", "en")>>))}

ConcurrentInit ==
    /\ globalContext = NoContext
    /\ running = NoRequest
    /\ pc = [r \in ConcurrentRequests |-> "idle"]
    /\ request = [r \in ConcurrentRequests |-> NoRequestInfo]
    /\ queryTree = [r \in ConcurrentRequests |-> NoQueryNode]
    /\ tokenizations = [r \in ConcurrentRequests |-> <<>>]
    /\ tokens = [r \in ConcurrentRequests |-> <<>>]
    /\ watch = [r \in ConcurrentRequests |-> NoWatch]
    /\ topLevelWatch = [r \in ConcurrentRequests |-> NoWatch]
    /\ res = [r \in ConcurrentRequests |-> NoResult]
    /\ locals = [r \in ConcurrentRequests |-> NoLocals]
    /\ trace = [r \in ConcurrentRequests |-> <<>>]
    /\ outcome = [r \in ConcurrentRequests |-> Pending]
    /\ merging = NoMerging
    /\ creating = NoCreating
    /\ generation = NoGeneration

ConcurrentNext ==
    \E r \in ConcurrentRequests :
        \/ /\ Start(r)
           /\ request'[r].operation = "query"
           /\ request'[r].options = EmptyOptions
           /\ ~request'[r].profileConsumer
        \/ Guard(r)
        \/ /\ Build(r)
           /\ queryTree'[r] \in ConcurrentTrees \cup {NoQueryNode}
        \/ CollectTokenizations(r)
        \/ TokenizeExpressions(r)
        \/ TokensReturned(r)
        \/ Expand(r)
        \/ Authorize(r)
        \/ StaticEvaluation(r)
        \/ Execute(r)
        \/ ExecuteExtReturned(r)
        \/ Assemble(r)
        \/ Complete(r)

ConcurrentSpec == ConcurrentInit /\ [][ConcurrentNext]_vars

\* --------------------------------------- evaluating a MergeObjectsQueryNode
\* The resolver at rest.
ResolverIdle ==
    /\ globalContext = NoContext
    /\ running = NoRequest
    /\ pc = [r \in Requests |-> "idle"]
    /\ request = [r \in Requests |-> NoRequestInfo]
    /\ queryTree = [r \in Requests |-> NoQueryNode]
    /\ tokenizations = [r \in Requests |-> <<>>]
    /\ tokens = [r \in Requests |-> <<>>]
    /\ watch = [r \in Requests |-> NoWatch]
    /\ topLevelWatch = [r \in Requests |-> NoWatch]
    /\ res = [r \in Requests |-> NoResult]
    /\ locals = [r \in Requests |-> NoLocals]
    /\ trace = [r \in Requests |-> <<>>]
    /\ outcome = [r \in Requests |-> Pending]

\* new MergeObjectsQueryNode(objectNodes), the nodes evaluated to objects
MergeInit ==
    /\ ResolverIdle
    /\ creating = NoCreating
    /\ generation = NoGeneration
    /\ \E objects \in MergeInputs : merging = [kind |-> "input", objects |-> objects]

\* The node is evaluated.
EvaluateMerge ==
    /\ merging.kind = "input"
    /\ merging' = [kind |-> "merged", objects |-> merging.objects,
                   result |-> mergeObjects(merging.objects)]
    /\ UNCHANGED <<resolverVars, creating, generation>>

MergeNext == EvaluateMerge

MergeSpec == MergeInit /\ [][MergeNext]_vars

\* ------------------------------------------------- preparing a create input
\* generate(type), to be called with `value` when the clock shows `now`
CreateInit ==
    /\ ResolverIdle
    /\ merging = NoMerging
    /\ generation = NoGeneration
    /\ \E type \in ModelTypes, now \in Times :
          \E value \in CreateValues(type) :
              creating = [kind |-> "input", type |-> type, value |-> value, now |-> now]

\* inputType.prepareValue(value)
PrepareValue ==
    /\ creating.kind = "input"
    /\ creating' = [kind |-> "prepared", type |-> creating.type, value |-> creating.value,
                    now |-> creating.now,
                    result |-> prepareValue(creating.type, creating.value, creating.now)]
    /\ UNCHANGED <<resolverVars, merging, generation>>

\* inputType.getAffectedFields(value)
GetAffectedFields ==
    /\ creating.kind = "input"
    /\ creating' = [kind |-> "affected", type |-> creating.type, value |-> creating.value,
                    now |-> creating.now,
                    result |-> getAffectedFields(creating.type, creating.value)]
    /\ UNCHANGED <<resolverVars, merging, generation>>

CreateNext == PrepareValue \/ GetAffectedFields

CreateSpec == CreateInit /\ [][CreateNext]_vars

\* ------------------------------------------ generating create input types
\* generateFields goes on to this.generate(field.type): the field is neither a
\* system field nor of a scalar, enum or root entity type (lines 238-265).
NeedsInputType(field) ==
    ~field.isSystemField /\ TypeKind(field.type) \notin {"scalar", "rootEntity"}

\* The call of generate(type) that is on top of the stack, and the field its
\* flatMap is at.
TopFrame == generation.stack[Len(generation.stack)]
FieldsDone == TopFrame.next > Len(ModelFields(TopFrame.type))
NextField == ModelFields(TopFrame.type)[TopFrame.next]

\* The flatMap of the top call goes on to its next field.
Advanced(stack) == [stack EXCEPT ![Len(stack)].next = @ + 1]

GenerateInit ==
    /\ ResolverIdle
    /\ merging = NoMerging
    /\ creating = NoCreating
    /\ generation = NoGeneration

\* generate(type) is called from outside; @memorize() returns what an earlier
\* call returned for the type, if there is one.
StartGenerate ==
    /\ generation.kind # "running"
    /\ \E type \in GeneratedTypes :
          generation' =
              IF type \in generation.cache
              THEN [generation EXCEPT !.kind = "returned", !.type = type]
              ELSE [generation EXCEPT !.kind = "running", !.type = type,
                                      !.stack = <<[type |-> type, next |-> 1]>>]
    /\ UNCHANGED <<resolverVars, merging, creating>>

\* generateFields(field) for a field that needs no input type of its own.
GenerateBasicFields ==
    /\ generation.kind = "running"
    /\ ~FieldsDone
    /\ ~NeedsInputType(NextField)
    /\ generation' = [generation EXCEPT !.stack = Advanced(@)]
    /\ UNCHANGED <<resolverVars, merging, creating>>

\* this.generate(field.type) for a type that a call has already returned.
GenerateMemorized ==
    /\ generation.kind = "running"
    /\ ~FieldsDone
    /\ NeedsInputType(NextField)
    /\ NextField.type \in generation.cache
    /\ generation' = [generation EXCEPT !.stack = Advanced(@)]
    /\ UNCHANGED <<resolverVars, merging, creating>>

\* this.generate(field.type) for a type no call has returned yet: the call is
\* made, and it is one call too many when the stack is full.
CallGenerate ==
    /\ generation.kind = "running"
    /\ ~FieldsDone
    /\ NeedsInputType(NextField)
    /\ NextField.type \notin generation.cache
    /\ generation' =
          IF Len(generation.stack) < MaxStackDepth
          THEN [generation EXCEPT !.stack = Append(@, [type |-> NextField.type, next |-> 1])]
          ELSE [generation EXCEPT !.kind = "thrown", !.stack = <<>>]
    /\ UNCHANGED <<resolverVars, merging, creating>>

\* The flatMap is through: the input type is constructed, memorized and
\* returned, to generateFields of the calling generate or to the outside.
ReturnGenerate ==
    /\ generation.kind = "running"
    /\ FieldsDone
    /\ LET popped == SubSeq(generation.stack, 1, Len(generation.stack) - 1)
       IN  generation' =
              [generation EXCEPT !.cache = @ \cup {TopFrame.type},
                                 !.stack = IF popped = <<>> THEN <<>> ELSE Advanced(popped),
                                 !.kind = IF popped = <<>> THEN "returned" ELSE "running"]
    /\ UNCHANGED <<resolverVars, merging, creating>>

GenerateNext ==
    \/ StartGenerate
    \/ GenerateBasicFields
    \/ GenerateMemorized
    \/ CallGenerate
    \/ ReturnGenerate

GenerateSpec == GenerateInit /\ [][GenerateNext]_vars

\* ----------------------------------------------------------------- claims
\* Every direct child of a node, inside lists too.
Children(queryNode) ==
    CASE queryNode.kind = "ObjectQueryNode" ->
            [i \in 1..Len(queryNode.properties) |-> queryNode.properties[i].valueNode]
      [] queryNode.kind = "MergeObjectsQueryNode" -> queryNode.objectNodes
      [] queryNode.kind = "TransformListQueryNode" ->
            <<queryNode.listNode, queryNode.itemVariable, queryNode.filterNode>>
      [] queryNode.kind = "RuntimeCheckQueryNode" -> <<queryNode.node>>
      [] OTHER -> <<>>

\* The (expression, language) of every FlexSearchComplexOperatorQueryNode of a
\* tree, in depth-first order.
RECURSIVE SearchOperators(_)
RECURSIVE SearchOperatorsOfList(_)
SearchOperatorsOfList(nodes) ==
    IF nodes = <<>> THEN <<>>
    ELSE SearchOperators(Head(nodes)) \o SearchOperatorsOfList(Tail(nodes))

SearchOperators(queryNode) ==
    IF queryNode.kind = "FlexSearchComplexOperatorQueryNode"
    THEN <<[expression |-> queryNode.expression, language |-> queryNode.flexSearchLanguage]>>
    ELSE SearchOperatorsOfList(Children(queryNode))

\* The positions in the trace of a call at which one of `steps` was taken.
At(r, steps) == {i \in DOMAIN trace[r] : trace[r][i].step \in steps}

ExecutionCalls == {"execute", "executeExt"}
BackendCalls == {"tokenizeExpressions", "execute", "executeExt"}

\* C1: the tree handed to static evaluation and to execute / executeExt holds
\* no FlexSearchComplexOperatorQueryNode, wherever the builder put one.
C1_NoUnexpandedSearchOperator ==
    \A r \in Requests :
        \A i \in At(r, {"staticEvaluation"} \cup ExecutionCalls) :
            SearchOperators(trace[r][i].tree) = <<>>

\* C2: when a call of resolveOperation is over, returned or thrown, the context
\* it registered is no longer registered.
C2_ContextUnregisteredAtEnd ==
    \A r \in Requests : pc[r] = "done" => globalContext # r

\* C3: a mutation under mutationMode 'disallowed' fails with no tree built and
\* no tokenizeExpressions, execute or executeExt call; any other request is
\* never rejected by the guard.
C3_GuardedMutation ==
    \A r \in Requests :
        LET disallowed == /\ request[r].operation = "mutation"
                          /\ request[r].options.mutationMode = "disallowed"
            rejected == /\ outcome[r].kind = "thrown"
                        /\ outcome[r].error = "Mutations are not allowed"
        IN  /\ (disallowed /\ pc[r] \notin {"idle", "guard"}) =>
                  /\ pc[r] = "done"
                  /\ rejected
                  /\ queryTree[r] = NoQueryNode
                  /\ At(r, {"build"} \cup BackendCalls) = {}
            /\ rejected => disallowed

C3_Witness ==
    \E r \in Requests :
        /\ pc[r] = "done"
        /\ request[r].operation = "mutation"
        /\ request[r].options.mutationMode = "disallowed"
        /\ outcome[r].kind = "thrown"

PipelineSteps ==
    {"build", "tokenizeExpressions", "expand", "authorization", "authorized",
     "staticEvaluation", "execute", "executeExt"}

\* The place of a step in the pipeline.
Rank(step) ==
    CASE step = "build" -> 1
      [] step = "tokenizeExpressions" -> 2
      [] step = "expand" -> 3
      [] step = "authorization" -> 4
      [] step = "authorized" -> 5
      [] step = "staticEvaluation" -> 6
      [] step \in ExecutionCalls -> 7

\* C4: the steps of a request are taken in the order build, tokenizeExpressions,
\* expansion, authorization, static evaluation, execution, none twice and none
\* before the one it follows; authorization is given the tree the expansion
\* returned, static evaluation and execution the tree authorization returned.
C4_PipelineOrder ==
    \A r \in Requests :
        /\ \A i, j \in At(r, PipelineSteps) :
              i < j => Rank(trace[r][i].step) < Rank(trace[r][j].step)
        /\ \A i \in At(r, PipelineSteps) :
              Rank(trace[r][i].step) > 1 =>
                 \E j \in At(r, PipelineSteps) :
                    j < i /\ Rank(trace[r][j].step) = Rank(trace[r][i].step) - 1
        /\ \A i \in At(r, {"authorization"}) :
              \E j \in At(r, {"expand"}) : j < i /\ trace[r][j].tree = trace[r][i].tree
        /\ \A i \in At(r, {"staticEvaluation"} \cup ExecutionCalls) :
              \E j \in At(r, {"authorized"}) : j < i /\ trace[r][j].tree = trace[r][i].tree

\* A returned request that took every step, its tree changed by the expansion
\* and by the authorization.
C4_Witness ==
    \E r \in Requests :
        /\ outcome[r].kind = "returned"
        /\ At(r, ExecutionCalls) # {}
        /\ \E i \in At(r, {"build"}), j \in At(r, {"expand"}) :
              trace[r][i].tree # trace[r][j].tree
        /\ \E i \in At(r, {"authorization"}), j \in At(r, {"authorized"}) :
              trace[r][i].tree # trace[r][j].tree

\* C5: an execution call is made exactly when the static evaluator reports the
\* authorized tree as not reducible. Reducible: no execute or executeExt call,
\* the envelope holds the evaluator's value and no error. Not reducible: one
\* call, executeExt if the adapter has it and execute otherwise, made once, and
\* the envelope's data is the data the call returned.
C5_ExecutionIffNotReducible ==
    \A r \in Requests :
        /\ Cardinality(At(r, ExecutionCalls)) <= 1
        /\ At(r, ExecutionCalls) # {} => At(r, {"staticEvaluation"}) # {}
        /\ \A i \in At(r, {"staticEvaluation"}) :
              LET evaluated == evaluateQueryStatically(trace[r][i].tree)
              IN  IF evaluated.canEvaluateStatically
                  THEN /\ At(r, ExecutionCalls) = {}
                       /\ pc[r] = "done" =>
                             /\ outcome[r].kind = "returned"
                             /\ outcome[r].envelope.data = evaluated.result
                             /\ outcome[r].envelope.error = "undefined"
                  ELSE /\ pc[r] # "execute" =>
                             \E j \in At(r, ExecutionCalls) :
                                 /\ trace[r][j].step =
                                       (IF request[r].hasExecuteExt THEN "executeExt" ELSE "execute")
                                 /\ trace[r][j].tree = trace[r][i].tree
                       /\ outcome[r].kind = "returned" =>
                             /\ res[r] # NoResult
                             /\ outcome[r].envelope.data = res[r].data

C5_Witness ==
    \E r \in Requests :
        /\ outcome[r].kind = "returned"
        /\ request[r].hasExecuteExt
        /\ At(r, {"executeExt"}) # {}
        /\ outcome[r].envelope.data # UndefinedValue

\* C6: a request that passed the guard and whose tree was built makes exactly
\* one tokenizeExpressions call, whatever the number of search operators.
C6_OneTokenizationCall ==
    \A r \in Requests :
        /\ Cardinality(At(r, {"tokenizeExpressions"})) <= 1
        /\ (At(r, {"build"}) # {} /\ pc[r] \notin {"collect", "tokenize"}) =>
              Cardinality(At(r, {"tokenizeExpressions"})) = 1

\* A returned request whose tree has two search operators.
C6_Witness ==
    \E r \in Requests :
        /\ outcome[r].kind = "returned"
        /\ \E i \in At(r, {"build"}) : Len(SearchOperators(trace[r][i].tree)) = 2
        /\ Cardinality(At(r, {"tokenizeExpressions"})) = 1

\* A query without search operators whose authorized tree the static evaluator
\* reduced.
ReducibleQueryWithoutSearch(r) ==
    /\ request[r].operation = "query"
    /\ \E i \in At(r, {"build"}) : SearchOperators(trace[r][i].tree) = <<>>
    /\ \E i \in At(r, {"staticEvaluation"}) :
          evaluateQueryStatically(trace[r][i].tree).canEvaluateStatically

\* C7, as claimed: a statically reducible query without search operators makes
\* no backend call at all: no tokenizeExpressions, no execute, no executeExt.
C7_NoBackendCall ==
    \A r \in Requests :
        ReducibleQueryWithoutSearch(r) => At(r, BackendCalls) = {}

\* C7, amended: a statically reducible query without search operators makes no
\* execute and no executeExt call; its one backend call is tokenizeExpressions
\* with the empty list.
C7_OnlyEmptyTokenizationCall ==
    \A r \in Requests :
        ReducibleQueryWithoutSearch(r) =>
            /\ At(r, ExecutionCalls) = {}
            /\ Cardinality(At(r, {"tokenizeExpressions"})) = 1
            /\ \A i \in At(r, {"tokenizeExpressions"}) : trace[r][i].list = <<>>

C7_Witness ==
    \E r \in Requests :
        /\ ReducibleQueryWithoutSearch(r)
        /\ outcome[r].kind = "returned"
        /\ outcome[r].envelope.data # UndefinedValue

\* C8: the list given to tokenizeExpressions has one (expression, language)
\* entry for every search operator of the built tree, those inside object nodes
\* and merge inputs too, in depth-first order.
C8_EveryOperatorTokenized ==
    \A r \in Requests :
        \A i \in At(r, {"build"}), j \in At(r, {"tokenizeExpressions"}) :
            trace[r][j].list = SearchOperators(trace[r][i].tree)

\* const needsTimings, stated on the inputs of the request.
ProfilingRequested(r) ==
    \/ request[r].profileConsumer
    \/ request[r].options.recordPlan
    \/ request[r].options.recordTimings

PreparationSamples == {"distillation", "queryTree", "authorization", "staticEvaluation"}

\* The envelope carries the profile with the timings of the request.
HasProfile(envelope) ==
    /\ envelope.profile.defined
    /\ PreparationSamples \subseteq Names(envelope.profile.timings.preparation.samples)
    /\ envelope.profile.timings.preparation.total = "sampled"

\* C9: when executeExt returns a result with an error, resolveOperation returns
\* an envelope with that error and the backend's data, and with the profile if
\* profiling was requested.
C9_BackendErrorReturned ==
    \A r \in Requests :
        (/\ pc[r] = "done"
         /\ At(r, {"executeExt"}) # {}
         /\ res[r] # NoResult
         /\ res[r].error # "undefined") =>
            /\ outcome[r].kind = "returned"
            /\ outcome[r].envelope.error = res[r].error
            /\ outcome[r].envelope.data = res[r].data
            /\ ProfilingRequested(r) => HasProfile(outcome[r].envelope)

C9_Witness ==
    \E r \in Requests :
        /\ outcome[r].kind = "returned"
        /\ At(r, {"executeExt"}) # {}
        /\ res[r] # NoResult
        /\ res[r].error # "undefined"
        /\ res[r].data # UndefinedValue
        /\ ProfilingRequested(r)

BackendFailures == {"tokenizeExpressions failed", "execute failed", "executeExt failed"}

\* C10, as claimed: a failing tokenizeExpressions, execute or executeExt call is
\* never thrown out of resolveOperation; an envelope is returned.
C10_BackendFailureNeverThrown ==
    \A r \in Requests :
        (pc[r] = "done" /\ At(r, BackendFailures) # {}) => outcome[r].kind = "returned"

\* C10, amended: an error that executeExt reports in its result is returned in
\* the envelope, with the profile if profiling was requested; a
\* tokenizeExpressions, execute or executeExt call that fails makes
\* resolveOperation fail with that error, and no envelope is returned.
C10_BackendFailurePropagates ==
    \A r \in Requests :
        pc[r] = "done" =>
            /\ At(r, {"tokenizeExpressions failed"}) # {} =>
                  outcome[r] = Thrown("tokenizeExpressions")
            /\ At(r, {"execute failed"}) # {} => outcome[r] = Thrown("execute")
            /\ At(r, {"executeExt failed"}) # {} => outcome[r] = Thrown("executeExt")
            /\ (At(r, BackendFailures) = {} /\ res[r] # NoResult) =>
                  /\ outcome[r].kind = "returned"
                  /\ outcome[r].envelope.error = res[r].error
                  /\ outcome[r].envelope.profile.defined = ProfilingRequested(r)

\* A rejected executeExt call of a request that asked for profiling.
C10_Witness ==
    \E r \in Requests :
        /\ pc[r] = "done"
        /\ At(r, {"executeExt failed"}) # {}
        /\ ProfilingRequested(r)
        /\ outcome[r].kind = "thrown"

BuildFailures == {"distillOperation failed", "buildConditionalObjectQueryNode failed"}

\* C11: when distillOperation or buildConditionalObjectQueryNode throws, the
\* call ends with that error thrown and no envelope; nothing of the pipeline
\* runs after the failure (no tokenizeExpressions, expansion, authorization,
\* static evaluation, execute or executeExt), and the context the call
\* registered is unregistered.
C11_BuildFailureAborts ==
    \A r \in Requests :
        \A i \in At(r, BuildFailures) :
            /\ pc[r] = "done"
            /\ outcome[r].kind = "thrown"
            /\ outcome[r].error =
                  (IF trace[r][i].step = "distillOperation failed"
                   THEN "distillOperation" ELSE "buildConditionalObjectQueryNode")
            /\ At(r, PipelineSteps \cup BackendCalls) = {}
            /\ \A j \in DOMAIN trace[r] : j > i => trace[r][j].step = "unregisterContext"
            /\ At(r, {"unregisterContext"}) # {}
            /\ globalContext # r

\* A call whose tree building threw after the distillation had succeeded.
C11_Witness ==
    \E r \in Requests :
        /\ pc[r] = "done"
        /\ At(r, {"buildConditionalObjectQueryNode failed"}) # {}
        /\ outcome[r] = Thrown("buildConditionalObjectQueryNode")

\* C14: the returned envelope holds a profile exactly when a profile consumer
\* is registered or options.recordPlan or options.recordTimings is set; when
\* none of the three holds, no watch is created and no timing sample is taken
\* at any step of the call.
C14_ProfileIffRequested ==
    \A r \in Requests :
        /\ outcome[r].kind = "returned" =>
              (outcome[r].envelope.profile.defined <=> ProfilingRequested(r))
        /\ ~ProfilingRequested(r) =>
              /\ ~watch[r].created /\ watch[r].timings = <<>>
              /\ ~topLevelWatch[r].created /\ topLevelWatch[r].timings = <<>>

\* A returned call that asked for the plan only and went to the backend, with
\* its profile.
C14_Witness ==
    \E r \in Requests :
        /\ outcome[r].kind = "returned"
        /\ At(r, ExecutionCalls) # {}
        /\ request[r].options.recordPlan
        /\ ~request[r].profileConsumer /\ ~request[r].options.recordTimings
        /\ outcome[r].envelope.profile.defined

\* The call of r is under way and is not the one the event loop runs: it is
\* suspended at an await.
Suspended(r) == pc[r] \notin {"idle", "done"} /\ running # r

\* C17, as claimed: a call is suspended only at the tokenizeExpressions call
\* and at the final execution call; the token collection, the expansion and
\* every other pass run without a suspension point.
C17_OnlyBackendCallsSuspend ==
    \A r \in Requests : Suspended(r) => pc[r] \in {"awaitTokens", "awaitExecute"}

\* C17, amended: a call is suspended only at the await of the token collection,
\* at the tokenizeExpressions call, at the await of the expansion and at the
\* executeExt call; the guard, distillation, tree building, authorization,
\* static evaluation and the execute call of an adapter without executeExt
\* run without a suspension point.
C17_SuspensionPoints ==
    \A r \in Requests :
        /\ Suspended(r) => pc[r] \in {"tokenize", "awaitTokens", "authorize", "awaitExecute"}
        /\ pc[r] = "awaitExecute" => request[r].hasExecuteExt
        /\ (At(r, {"execute"}) # {} /\ pc[r] # "done") => ~Suspended(r)

\* A call suspended at the await of its expansion, its authorization not yet
\* begun.
C17_Witness ==
    \E r \in Requests :
        /\ Suspended(r)
        /\ pc[r] = "authorize"
        /\ At(r, {"expand"}) # {}

\* C13: the expansion returns the very node it was given for a tree in which
\* there is no search operator, object nodes and ObjectQueryNode.EMPTY
\* included: the root reference after the expansion is the root reference
\* before it.
C13_ExpansionKeepsIdentity ==
    \A r \in Requests :
        \A i \in At(r, {"build"}), j \in At(r, {"expand"}) :
            SearchOperators(trace[r][i].tree) = <<>> =>
                expandQueryNode(trace[r][i].tree, trace[r][j].list).same

\* The call of r has registered its context and has not yet run its finally
\* block.
InFlight(r) ==
    pc[r] \in {"guard", "build", "collect", "tokenize", "awaitTokens", "expand", "authorize"}

\* The next step of r is the tree building, the expansion or the
\* authorization, and the event loop can run it now.
ExecutesInScope(r) ==
    \/ running = r /\ pc[r] \in {"build", "expand"}
    \/ running = NoRequest /\ pc[r] = "authorize"

\* C12: with two calls at the same time, each with its own context, a call
\* that runs its tree building, expansion or authorization finds its own
\* context registered, and the unregistration at the end of a call's
\* authorization never removes the registration of the other call while that
\* one is in flight.
C12_ContextIsolation ==
    \A r \in ConcurrentRequests :
        /\ ExecutesInScope(r) => globalContext = r
        /\ \A o \in ConcurrentRequests \ {r} :
              (running = NoRequest /\ pc[r] = "authorize" /\ InFlight(o)) =>
                  globalContext # o

\* The inputs of the merge that define the property `name`.
Definers(name) == {i \in DOMAIN merging.objects : name \in DOMAIN merging.objects[i]}

\* The last of them.
LastDefiner(name) == CHOOSE i \in Definers(name) : \A j \in Definers(name) : j <= i

\* C15: the merged object has, for each property, the value of the last input
\* that defines it; a property whose last definition is the removing null is
\* absent, whatever an earlier input gave it; a property no input defines is
\* absent.
C15_LastDefinitionWins ==
    merging.kind = "merged" =>
        /\ DOMAIN merging.result \subseteq MergeNames
        /\ \A name \in MergeNames :
              IF Definers(name) = {} THEN name \notin DOMAIN merging.result
              ELSE LET last == merging.objects[LastDefiner(name)][name]
                   IN  IF last = NullJS THEN name \notin DOMAIN merging.result
                       ELSE /\ name \in DOMAIN merging.result
                            /\ merging.result[name] = last

\* {a: 1, x: 2} merged with {x: removed}: {a: 1}.
C15_Witness ==
    /\ merging.kind = "merged"
    /\ merging.objects = <<[name \in {"a", "x"} |-> IF name = "a" THEN Scalar("1") ELSE Scalar("2")],
                           [name \in {"x"} |-> NullJS]>>
    /\ merging.result = [name \in {"a"} |-> Scalar("1")]

\* C16: when two inputs give a property an object, the merged property is
\* the object of the later input and nothing else: no key of the earlier
\* object is carried into it.
C16_MergeNotRecursive ==
    merging.kind = "merged" =>
        \A name \in MergeNames : \A i, j \in Definers(name) :
            (/\ i < j
             /\ j = LastDefiner(name)
             /\ merging.objects[i][name].kind = "object"
             /\ merging.objects[j][name].kind = "object") =>
                /\ name \in DOMAIN merging.result
                /\ merging.result[name] = merging.objects[j][name]
                /\ DOMAIN merging.result[name].object = DOMAIN merging.objects[j][name].object

\* {x: {p: 1}} merged with {x: {q: 2}}: {x: {q: 2}}.
C16_Witness ==
    /\ merging.kind = "merged"
    /\ merging.objects = <<[name \in {"x"} |-> Object([n \in {"p"} |-> Scalar("1")])],
                           [name \in {"x"} |-> Object([n \in {"q"} |-> Scalar("2")])]>>
    /\ merging.result = [name \in {"x"} |-> Object([n \in {"q"} |-> Scalar("2")])]

\* The fields of a type that a create input can set: neither system fields nor
\* relations.
InputModelFields(type) ==
    {ModelFields(type)[i] : i \in {j \in DOMAIN ModelFields(type) :
        ~ModelFields(type)[j].isSystemField /\ ~ModelFields(type)[j].isRelation}}

IsObjectField(field) == TypeKind(field.type) \notin {"scalar", "rootEntity"}

\* The fields for which `value` holds a value other than undefined, those of
\* the objects and lists of objects inside it too.
RECURSIVE Supplied(_, _)
Supplied(type, value) ==
    UNION {LET v == Get(value, field.name)
           IN  IF v = UndefinedJS THEN {}
               ELSE {field} \cup
                    (IF ~IsObjectField(field) THEN {}
                     ELSE IF v.kind = "object" THEN Supplied(field.type, v.object)
                     ELSE IF v.kind = "array"
                          THEN UNION {Supplied(field.type, v.items[i].object) : i \in DOMAIN v.items}
                          ELSE {})
           : field \in InputModelFields(type)}

\* C18: getAffectedFields returns, each once, exactly the fields for which the
\* value holds something other than undefined (null counts), at the top and
\* inside the objects and lists of objects it holds; a field that only gets
\* its default value is not among them.
C18_AffectedFieldsAreSupplied ==
    (creating.kind = "affected" /\ ~creating.result.thrown) =>
        LET fields == creating.result.fields
        IN  /\ \A i, j \in DOMAIN fields : fields[i] = fields[j] => i = j
            /\ {fields[i] : i \in DOMAIN fields} = Supplied(creating.type, creating.value)

\* A hero without age, its name null, with two missions that both have a
\* title: the fields are name, missions and title, each once.
C18_Witness ==
    /\ creating.kind = "affected"
    /\ creating.type = "Hero"
    /\ DOMAIN creating.value = {"name", "missions"}
    /\ creating.value["name"] = NullJS
    /\ creating.value["missions"].kind = "array"
    /\ Len(creating.value["missions"].items) = 2
    /\ \A i \in 1..2 : "title" \in DOMAIN creating.value["missions"].items[i].object
    /\ Len(creating.result.fields) = 3

\* The value that getProperties starts from: the one given, or the default.
Given(field, value) ==
    IF Get(value, field.name) = UndefinedJS /\ field.hasDefaultValue
    THEN field.defaultValue ELSE Get(value, field.name)

\* No list field of `object`, prepared from `value`, is null, and it is [] when
\* the value given for it (or its default) is null; the same inside the objects
\* and the lists of objects.
RECURSIVE ListsCoerced(_, _, _)
ListsCoerced(type, value, object) ==
    \A field \in InputModelFields(type) :
        /\ (field.isList /\ field.name \in DOMAIN object) =>
              /\ object[field.name] # NullJS
              /\ Given(field, value) = NullJS => object[field.name] = Array(<<>>)
        /\ (IsObjectField(field) /\ field.name \in DOMAIN object) =>
              LET given == Given(field, value)
                  stored == object[field.name]
              IN  /\ (~field.isList /\ given.kind = "object") =>
                        /\ stored.kind = "object"
                        /\ ListsCoerced(field.type, given.object, stored.object)
                  /\ (field.isList /\ given.kind = "array") =>
                        /\ stored.kind = "array"
                        /\ Len(stored.items) = Len(given.items)
                        /\ \A i \in DOMAIN given.items :
                              ListsCoerced(field.type, given.items[i].object,
                                           stored.items[i].object)

\* C19: prepareValue never stores null in a list field: a list of scalars or
\* of objects whose value, given or taken from the default, is null is stored
\* as [], at the top and inside nested objects.
C19_NoNullList ==
    (creating.kind = "prepared" /\ ~IsError(creating.result)) =>
        ListsCoerced(creating.type, creating.value, creating.result.object)

\* A hero given null for nickNames, nothing for missions (whose default is
\* null) and a suit whose patches are null.
C19_Witness ==
    /\ creating.kind = "prepared"
    /\ creating.type = "Hero"
    /\ DOMAIN creating.value = {"nickNames", "suit"}
    /\ creating.value["nickNames"] = NullJS
    /\ creating.value["suit"] = Object([name \in {"patches"} |-> NullJS])
    /\ ~IsError(creating.result)
    /\ creating.result.object["nickNames"] = Array(<<>>)
    /\ creating.result.object["missions"] = Array(<<>>)
    /\ creating.result.object["suit"].object["patches"] = Array(<<>>)

\* The names of the properties that getAdditionalProperties adds.
AdditionalNames(type) ==
    CASE TypeKind(type) = "rootEntity" -> {ENTITY_CREATED_AT, ENTITY_UPDATED_AT}
      [] TypeKind(type) = "childEntity" -> {ID_FIELD, ENTITY_CREATED_AT, ENTITY_UPDATED_AT}
      [] OTHER -> {}

\* C20: the prepared object has a property for a field of the input type
\* exactly when the field's name is a key of the value or the field has a
\* default value; apart from the additional properties it has no other
\* property, so a key of the value that is no field never appears and a field
\* left out that has no default is absent.
C20_PropertiesOfApplicableFields ==
    (creating.kind = "prepared" /\ ~IsError(creating.result)) =>
        LET object == creating.result.object
            declared == {field.name : field \in InputModelFields(creating.type)}
        IN  /\ \A field \in InputModelFields(creating.type) :
                  field.name \notin AdditionalNames(creating.type) =>
                      (field.name \in DOMAIN object <=>
                          (field.name \in DOMAIN creating.value \/ field.hasDefaultValue))
            /\ DOMAIN object \subseteq declared \cup AdditionalNames(creating.type)

\* A hero given a key that is no field, an undefined name and neither age nor
\* suit: name and age are properties, suit and the unknown key are not.
C20_Witness ==
    /\ creating.kind = "prepared"
    /\ creating.type = "Hero"
    /\ DOMAIN creating.value = {"extra", "name"}
    /\ creating.value["name"] = UndefinedJS
    /\ ~IsError(creating.result)
    /\ {"name", "age"} \subseteq DOMAIN creating.result.object
    /\ creating.result.object["name"] = UndefinedJS
    /\ "suit" \notin DOMAIN creating.result.object
    /\ "extra" \notin DOMAIN creating.result.object

\* C21: the default value of a field is what prepareValue stores exactly when
\* the field has one and the value leaves the field out or gives undefined for
\* it; a value that is given, null on a field that is no list included, is
\* stored and not replaced by the default; undefined for a field without
\* default stays undefined. (A property that the generator sets itself holds
\* what the generator gives it.)
C21_DefaultOnlyWhenOmitted ==
    (creating.kind = "prepared" /\ ~IsError(creating.result)) =>
        \A field \in InputModelFields(creating.type) :
            LET given == Get(creating.value, field.name)
                object == creating.result.object
            IN  (/\ ~field.isList /\ ~IsObjectField(field)
                 /\ field.name \in DOMAIN object
                 /\ field.name \notin AdditionalNames(creating.type)) =>
                    object[field.name] =
                        (IF given = UndefinedJS /\ field.hasDefaultValue
                         THEN field.defaultValue ELSE given)

\* A hero whose age is given as null: the age stays null, the default 42 is
\* not taken.
C21_Witness ==
    /\ creating.kind = "prepared"
    /\ creating.type = "Hero"
    /\ DOMAIN creating.value = {"age"}
    /\ creating.value["age"] = NullJS
    /\ ~IsError(creating.result)
    /\ creating.result.object["age"] = NullJS

\* The properties that the generator sets on an object prepared for `type`:
\* both timestamps the one `now`, an id for a child entity and none for a
\* root entity.
Generated(type, object, now) ==
    CASE TypeKind(type) = "rootEntity" ->
            /\ {ENTITY_CREATED_AT, ENTITY_UPDATED_AT} \subseteq DOMAIN object
            /\ object[ENTITY_CREATED_AT] = Scalar(now)
            /\ object[ENTITY_UPDATED_AT] = object[ENTITY_CREATED_AT]
            /\ ID_FIELD \notin DOMAIN object
      [] TypeKind(type) = "childEntity" ->
            /\ {ID_FIELD, ENTITY_CREATED_AT, ENTITY_UPDATED_AT} \subseteq DOMAIN object
            /\ object[ENTITY_CREATED_AT] = Scalar(now)
            /\ object[ENTITY_UPDATED_AT] = object[ENTITY_CREATED_AT]
            /\ object[ID_FIELD] = Scalar("uuid")
      [] OTHER -> TRUE

\* C22: the object prepared for a root entity or a child entity has createdAt
\* and updatedAt set by the generator to one and the same timestamp, whatever
\* the value holds under these names; a child entity has the generated id,
\* whatever the value holds as id, and a root entity has no id. The same for
\* the child entities prepared inside a list.
C22_GeneratedPropertiesWin ==
    (creating.kind = "prepared" /\ ~IsError(creating.result)) =>
        /\ Generated(creating.type, creating.result.object, creating.now)
        /\ \A field \in InputModelFields(creating.type) :
              (/\ IsObjectField(field) /\ field.isList
               /\ field.name \in DOMAIN creating.result.object
               /\ creating.result.object[field.name].kind = "array") =>
                  \A i \in DOMAIN creating.result.object[field.name].items :
                      Generated(field.type, creating.result.object[field.name].items[i].object,
                                creating.now)

\* A parcel given an id of its own: the id of the prepared object is the
\* generated one.
C22_Witness ==
    /\ creating.kind = "prepared"
    /\ creating.type = "Parcel"
    /\ "id" \in DOMAIN creating.value
    /\ creating.value["id"] = Scalar("x")
    /\ ~IsError(creating.result)
    /\ creating.result.object["id"] = Scalar("uuid")
    /\ creating.result.object["createdAt"] = creating.result.object["updatedAt"]

\* C23: every call of generate ends by returning the create input type of its
\* type: no call runs into the end of the call stack, for a type whose fields
\* lead back to the type as for any other.
C23_GenerateReturns ==
    generation.kind # "thrown"

\* C24: when profiling is requested and the execution call is made, the
\* profile of the returned envelope has a defined database timing: the one of
\* the backend's result if it carries timings, and otherwise the sample
\* recorded for the backend phase; and each of distillation, queryTree,
\* authorization and staticEvaluation is sampled exactly once.
C24_DatabaseTimingDefined ==
    \A r \in Requests :
        (/\ outcome[r].kind = "returned"
         /\ ProfilingRequested(r)
         /\ At(r, ExecutionCalls) # {}) =>
            LET profile == outcome[r].envelope.profile
            IN  /\ profile.defined
                /\ profile.timings.database # "undefined"
                /\ ~locals[r].dbAdapterTimings => profile.timings.database = "sampled"
                /\ \A name \in PreparationSamples :
                      Cardinality({i \in DOMAIN profile.timings.preparation.samples :
                                      profile.timings.preparation.samples[i] = name}) = 1

\* C25: a value for a list of objects that is neither null, undefined nor an
\* array makes prepareValue and getAffectedFields fail with an error that
\* names the field, and the failing collection of the affected fields has
\* added no field to the set it was given.
C25_NonArrayFails ==
    \A field \in InputModelFields(creating.type) :
        (/\ creating.kind \in {"prepared", "affected"}
         /\ IsObjectField(field) /\ field.isList
         /\ Get(creating.value, field.name).kind \notin {"undefined", "null", "array"}) =>
            IF creating.kind = "prepared"
            THEN /\ IsError(creating.result)
                 /\ creating.result.name = field.name
            ELSE /\ creating.result.thrown
                 /\ creating.result.error = ExpectedArray(field.name)
                 /\ creating.result.fields = <<>>

\* The token lists that the expanded search operators of a tree were given, in
\* depth-first order.
RECURSIVE ReceivedTokenizations(_)
RECURSIVE ReceivedTokenizationsOfList(_)
ReceivedTokenizationsOfList(nodes) ==
    IF nodes = <<>> THEN <<>>
    ELSE ReceivedTokenizations(Head(nodes)) \o ReceivedTokenizationsOfList(Tail(nodes))

ReceivedTokenizations(queryNode) ==
    IF queryNode.kind = "ExpandedOperatorQueryNode"
    THEN <<queryNode.tokenizations>>
    ELSE ReceivedTokenizationsOfList(Children(queryNode))

\* C26: every expand operation of the expansion pass was given the complete
\* list that the one tokenizeExpressions call of the request returned: one
\* entry per collected expression, in the order collected, and the same list
\* for every search operator.
C26_ExpandReceivesAllTokens ==
    \A r \in Requests :
        \A j \in At(r, {"expand"}) :
            LET received == ReceivedTokenizations(trace[r][j].tree)
                calls == {i \in At(r, {"tokenizeExpressions"}) : i < j}
            IN  /\ Cardinality(calls) = 1
                /\ \A i \in calls, k \in DOMAIN received :
                      /\ received[k] = tokenizeExpressions(trace[r][i].list)
                      /\ received[k] = tokens[r]
                      /\ Len(received[k]) = Len(trace[r][i].list)

\* An expansion that replaced two search operators with different expressions.
C26_Witness ==
    \E r \in Requests :
        \E j \in At(r, {"expand"}) :
            LET received == ReceivedTokenizations(trace[r][j].tree)
            IN  /\ Len(received) = 2
                /\ Len(received[1]) = 2
                /\ received[1][1].expression # received[1][2].expression

====
